---- MODULE Spec2Model ----
(***************************************************************************)
(* Model of the persona sampler (utils/persona.py) and of the interview    *)
(* orchestrator (predictor.py).                                            *)
(*                                                                         *)
(* Python values are records [kind, n, s, l]:                              *)
(*   kind = "none"   None                                                  *)
(*   kind = "int"    an int, n its value                                   *)
(*   kind = "float"  a float, n its value in hundredths (0.11 is n = 11)   *)
(*   kind = "str"    a str, s its text                                     *)
(*   kind = "list"   a list, l the sequence of its items                   *)
(*   kind = "raise"  no value: the call raised, s names the exception      *)
(***************************************************************************)
EXTENDS Integers, Sequences, FiniteSets, TLC

VARIABLES
    spec,        \* _sample_from: the AttributeSpec of the last call
    rng,         \* _sample_from: the random source's state after the last call
    sampled,     \* _sample_from: what the last call returned (or raised)
    persona,     \* the PersonaSpec: attribute name -> AttributeSpec
    bioCall,     \* generate_biography: the last call and its outcome
    seen,        \* seed -> what the calls with that seed returned
    responses,   \* IntentPredictor.responses
    stored,      \* the file responses/<response_filename>: what json.dump wrote
    run,         \* IntentPredictor.predict: the last call and its outcome
    calls        \* number of predict calls made on this IntentPredictor

vars == <<spec, rng, sampled, persona, bioCall, seen, responses, stored, run, calls>>

samplerVars == <<spec, rng, sampled>>
bioVars == <<persona, bioCall, seen>>
predictVars == <<responses, stored, run, calls>>

----------------------------------------------------------------------------
(* Bounds of the model.                                                    *)

\* the random source has RngMod states; one draw yields one of RngMod values
RngMod == 4
\* int bounds and int options are drawn from 0..MaxInt
MaxInt == 3
\* float bounds are drawn from 0.00, 0.01, .. MaxHundredths/100
MaxHundredths == 30
\* seeds are drawn from 0..MaxSeed
MaxSeed == 1
\* at most MaxDraws draws are made from one random source handed to _sample_from
MaxDraws == 2
\* a PersonaSpec sets at most MaxPresent of its 23 attributes
MaxPresent == 2
\* predict is called at most MaxCalls times on one IntentPredictor
MaxCalls == 2
\* sample_size is drawn from 1..MaxSample
MaxSample == 2
\* the service's texts hold at most MaxDelims delimiters
MaxDelims == 2

----------------------------------------------------------------------------
(* Python values.                                                          *)

PyNone == [kind |-> "none", n |-> 0, s |-> "", l |-> <<>>]
PyInt(i) == [kind |-> "int", n |-> i, s |-> "", l |-> <<>>]
PyFloat(h) == [kind |-> "float", n |-> h, s |-> "", l |-> <<>>]
PyStr(t) == [kind |-> "str", n |-> 0, s |-> t, l |-> <<>>]
PyList(items) == [kind |-> "list", n |-> 0, s |-> "", l |-> items]
Raised(exc) == [kind |-> "raise", n |-> 0, s |-> exc, l |-> <<>>]

\* isinstance(x, (int, float))
IsNumber(x) == x.kind \in {"int", "float"}

\* a number's value in hundredths, whatever its type
Hundredths(x) == IF x.kind = "int" THEN 100 * x.n ELSE x.n

----------------------------------------------------------------------------
(* The random source (random.Random).  Its generator is abstracted to a    *)
(* deterministic source with RngMod states: the state is a function of the *)
(* seed alone, and each draw is a function of the state and advances it.   *)

\* A random source is [state, drawn]: its generator's state and the number of
\* draws made from it since it was created.

\* random.Random(seed) with an int seed: the state is a function of abs(seed)
SeedState(seed) == (IF seed < 0 THEN -seed ELSE seed) % RngMod

\* random.Random() whatever the seed: the seed is dropped
NewRandom_unseeded(seed, entropy) == [state |-> entropy, drawn |-> 0]

\* random.Random(seed): seed is an int, or None and the state comes from the
\* operating system's entropy
NewRandom(seed, entropy) ==
    [state |-> IF seed = PyNone THEN entropy ELSE SeedState(seed.n), drawn |-> 0]

\* the source after one draw
Advance(r) == [state |-> (5 * r.state + 3) % RngMod, drawn |-> r.drawn + 1]

\* randint with its upper bound one too far
randint_past_hi(lo, hi, r) ==
    IF hi + 1 - lo <= 0
    THEN [val |-> Raised("ValueError"), rng |-> r]
    ELSE [val |-> PyInt(lo + (r.state % (hi + 2 - lo))), rng |-> Advance(r)]

\* rng.randint(lo, hi) = randrange(lo, hi + 1): ValueError on an empty range
randint(lo, hi, r) ==
    IF hi + 1 - lo <= 0
    THEN [val |-> Raised("ValueError"), rng |-> r]
    ELSE [val |-> PyInt(lo + (r.state % (hi + 1 - lo))), rng |-> Advance(r)]

\* rng.uniform(a, b) = a + (b - a) * random(), random() = state / RngMod in
\* [0, 1).  a, b and the result are in hundredths; the result is the exact
\* fraction num / den.
uniform(a, b, r) ==
    [num |-> a * RngMod + (b - a) * r.state, den |-> RngMod, rng |-> Advance(r)]

\* round(x, 1) of x = num / den hundredths: the nearest tenth, a tie going to
\* the even tenth; the result is a float, in hundredths
round1(num, den) ==
    LET d == 10 * den
        q == num \div d
        m == num % d
        t == IF 2 * m < d THEN q
             ELSE IF 2 * m > d THEN q + 1
             ELSE IF q % 2 = 0 THEN q ELSE q + 1
    IN  PyFloat(10 * t)

\* rng.choice(seq), seq not empty
choice(items, r) ==
    [val |-> items[1 + (r.state % Len(items))], rng |-> Advance(r)]

----------------------------------------------------------------------------
(* utils/persona.py: _is_numeric_range and _sample_from.                   *)

\* _is_numeric_range deciding by length alone
is_numeric_range_by_length(v) == v.kind = "list" /\ Len(v.l) = 2

is_numeric_range(v) ==
    /\ v.kind = "list"
    /\ Len(v.l) = 2
    /\ \A i \in 1..2 : IsNumber(v.l[i])

\* the numeric-range branch of _sample_from: lo, hi = spec
sample_range(lo, hi, r) ==
    IF lo.kind = "int" /\ hi.kind = "int"
    THEN randint(lo.n, hi.n, r)
    ELSE IF ~(IsNumber(lo) /\ IsNumber(hi))
    THEN [val |-> Raised("ValueError"), rng |-> r]       \* float(lo), float(hi)
    ELSE LET u == uniform(Hundredths(lo), Hundredths(hi), r)
         IN  [val |-> round1(u.num, u.den), rng |-> u.rng]

\* _sample_from(spec, rng): the value returned (or the exception raised) and
\* the state the call leaves the random source in
sample_from(sp, r) ==
    IF sp.kind = "none"
    THEN [val |-> PyNone, rng |-> r]
    ELSE IF is_numeric_range(sp)
    THEN sample_range(sp.l[1], sp.l[2], r)
    ELSE IF sp.kind = "list" /\ Len(sp.l) > 0
    THEN choice(sp.l, r)
    ELSE [val |-> PyNone, rng |-> r]

----------------------------------------------------------------------------
(* The AttributeSpecs the sampler is called with.                          *)

Ints == {PyInt(i) : i \in 0..MaxInt}
Floats == {PyFloat(h) : h \in 0..MaxHundredths} \cup {PyFloat(100 * i) : i \in 1..MaxInt}
Labels == {PyStr("male"), PyStr("female")}
\* a multi-select option: an option that is itself a list
MultiSelects == {PyList(<<>>), PyList(<<PyStr("fitness"), PyStr("gaming")>>)}
Items == Ints \cup Floats \cup Labels \cup MultiSelects

AttributeSpecs ==
    {PyNone, PyStr("male"), PyList(<<>>)}
        \cup {PyList(<<a>>) : a \in Items}
        \cup {PyList(<<a, b>>) : a \in Items, b \in Items}
        \cup {PyList(<<a, b, c>>) : a \in Labels \cup Ints, b \in Labels, c \in Labels}

Seeds == {PyInt(i) : i \in 0..MaxSeed}
Entropy == 0..(RngMod - 1)

----------------------------------------------------------------------------
(* utils/persona.py: the five categories' attributes, in declaration order *)
(* (the dataclasses Demographic .. Technographic and PersonaSpec's fields).*)

Fields ==
    << "demographic.age", "demographic.gender", "demographic.income_level",
       "demographic.education_level", "demographic.marital_status",
       "demographic.household_size", "demographic.children_count",
       "demographic.occupation",
       "geographic.country", "geographic.region", "geographic.urbanicity",
       "geographic.climate",
       "psychographic.lifestyle", "psychographic.values",
       "psychographic.personality", "psychographic.interests",
       "behavioral.purchase_frequency", "behavioral.brand_loyalty",
       "behavioral.purchase_channel", "behavioral.category_experience",
       "technographic.devices", "technographic.social_media",
       "technographic.tech_adoption" >>

FieldSet == {Fields[i] : i \in 1..Len(Fields)}

\* one template: the text before the slot, the slot's name, the text after it
Tpl(pre, slot, post) == [pre |-> pre, slot |-> slot, post |-> post]

\* PersonaSpec._templates
templates ==
    [f \in FieldSet |->
        CASE f = "demographic.age" -> Tpl("You are ", "age", " years old.")
          [] f = "demographic.gender" -> Tpl("You identify as ", "gender", ".")
          [] f = "demographic.income_level" -> Tpl("You have a ", "income_level", " income level.")
          [] f = "demographic.education_level" -> Tpl("Your highest education level is ", "education_level", ".")
          [] f = "demographic.marital_status" -> Tpl("You are ", "marital_status", ".")
          [] f = "demographic.household_size" -> Tpl("Your household consists of ", "household_size", " people.")
          [] f = "demographic.children_count" -> Tpl("You have ", "children_count", " children.")
          [] f = "demographic.occupation" -> Tpl("You work as a ", "occupation", ".")
          [] f = "geographic.country" -> Tpl("You live in ", "country", ".")
          [] f = "geographic.region" -> Tpl("Your region is ", "region", ".")
          [] f = "geographic.urbanicity" -> Tpl("You live in a(n) ", "urbanicity", " area.")
          [] f = "geographic.climate" -> Tpl("Your local climate is ", "climate", ".")
          [] f = "psychographic.lifestyle" -> Tpl("Your lifestyle is ", "lifestyle", ".")
          [] f = "psychographic.values" -> Tpl("You value ", "values", ".")
          [] f = "psychographic.personality" -> Tpl("Your personality is ", "personality", ".")
          [] f = "psychographic.interests" -> Tpl("Your interests include ", "interests", ".")
          [] f = "behavioral.purchase_frequency" -> Tpl("You are a ", "purchase_frequency", " buyer in this category.")
          [] f = "behavioral.brand_loyalty" -> Tpl("You are a ", "brand_loyalty", " when it comes to brands.")
          [] f = "behavioral.purchase_channel" -> Tpl("You typically buy via ", "purchase_channel", ".")
          [] f = "behavioral.category_experience" -> Tpl("Your experience with this category is ", "category_experience", ".")
          [] f = "technographic.devices" -> Tpl("You regularly use: ", "devices", ".")
          [] f = "technographic.social_media" -> Tpl("Your preferred social platforms include: ", "social_media", ".")
          [] f = "technographic.tech_adoption" -> Tpl("You are a ", "tech_adoption", " of technology.")]

\* one add_sentence call of generate_biography: the template's path, the
\* value_key, the attribute whose spec is passed, whether postprocess is given
Call(path, key, attr, post) ==
    [path |-> path, key |-> key, attr |-> attr, postprocess |-> post]

\* the add_sentence calls under "# Demographic"
demographic_calls ==
    << Call("demographic.age", "age", "demographic.age", FALSE),
       Call("demographic.gender", "gender", "demographic.gender", FALSE),
       Call("demographic.income_level", "income_level", "demographic.income_level", FALSE),
       Call("demographic.education_level", "education_level", "demographic.education_level", FALSE),
       Call("demographic.marital_status", "marital_status", "demographic.marital_status", FALSE),
       Call("demographic.household_size", "household_size", "demographic.household_size", FALSE),
       Call("demographic.children_count", "children_count", "demographic.children_count", FALSE),
       Call("demographic.occupation", "occupation", "demographic.occupation", FALSE) >>

\* the add_sentence calls under "# Geographic"
geographic_calls ==
    << Call("geographic.country", "country", "geographic.country", FALSE),
       Call("geographic.region", "region", "geographic.region", FALSE),
       Call("geographic.urbanicity", "urbanicity", "geographic.urbanicity", FALSE),
       Call("geographic.climate", "climate", "geographic.climate", FALSE) >>

\* the add_sentence calls under "# Psychographic"
psychographic_calls ==
    << Call("psychographic.lifestyle", "lifestyle", "psychographic.lifestyle", FALSE),
       Call("psychographic.values", "values", "psychographic.values", TRUE),
       Call("psychographic.personality", "personality", "psychographic.personality", FALSE),
       Call("psychographic.interests", "interests", "psychographic.interests", TRUE) >>

\* the add_sentence calls under "# Behavioral"
behavioral_calls ==
    << Call("behavioral.purchase_frequency", "purchase_frequency", "behavioral.purchase_frequency", FALSE),
       Call("behavioral.brand_loyalty", "brand_loyalty", "behavioral.brand_loyalty", FALSE),
       Call("behavioral.purchase_channel", "purchase_channel", "behavioral.purchase_channel", FALSE),
       Call("behavioral.category_experience", "category_experience", "behavioral.category_experience", FALSE) >>

\* the add_sentence calls under "# Technographic"
technographic_calls ==
    << Call("technographic.devices", "devices", "technographic.devices", TRUE),
       Call("technographic.social_media", "social_media", "technographic.social_media", TRUE),
       Call("technographic.tech_adoption", "tech_adoption", "technographic.tech_adoption", FALSE) >>

\* the calls with the Behavioral block made before the Psychographic block
add_sentence_calls_reordered ==
    demographic_calls \o geographic_calls \o behavioral_calls
        \o psychographic_calls \o technographic_calls

\* the add_sentence calls of generate_biography, in the order it makes them
add_sentence_calls ==
    demographic_calls \o geographic_calls \o psychographic_calls
        \o behavioral_calls \o technographic_calls

----------------------------------------------------------------------------
(* utils/persona.py: PersonaSpec.generate_biography.                       *)

\* repr of a float given in hundredths: 0.1, 0.11, 5.0
FloatRepr(h) ==
    LET a == IF h < 0 THEN -h ELSE h
        frac == a % 100
    IN  (IF h < 0 THEN "-" ELSE "") \o ToString(a \div 100) \o "." \o
        (IF frac % 10 = 0 THEN ToString(frac \div 10)
         ELSE IF frac < 10 THEN "0" \o ToString(frac)
         ELSE ToString(frac))

RECURSIVE Join(_, _)
\* sep.join(strs)
Join(strs, sep) ==
    IF Len(strs) = 0 THEN ""
    ELSE IF Len(strs) = 1 THEN strs[1]
    ELSE strs[1] \o sep \o Join(Tail(strs), sep)

RECURSIVE Str(_)
\* str(v), as map(str, ...) and str.format apply it
Str(v) ==
    CASE v.kind = "str" -> v.s
      [] v.kind = "int" -> ToString(v.n)
      [] v.kind = "float" -> FloatRepr(v.n)
      [] v.kind = "none" -> "None"
      [] v.kind = "list" ->
            "[" \o Join([i \in 1..Len(v.l) |-> Str(v.l[i])], ", ") \o "]"

\* the lambda passed as postprocess
postprocess(v) ==
    IF v.kind = "str" THEN v
    ELSE IF v.kind = "list"
    THEN PyStr(Join([i \in 1..Len(v.l) |-> v.l[i].s], ", "))
    ELSE v

\* template.format(**{value_key: sampled_value}): the sentence, or KeyError
\* when the template's slot is not the key given
format(template, key, value) ==
    IF template.slot = key
    THEN PyStr(template.pre \o Str(value) \o template.post)
    ELSE Raised("KeyError")

\* The state of one generate_biography call: the random source, parts, the
\* exception that ended the call ("" while none has), and a record of what
\* happened: attrs lists the attributes sampled so far, values what each
\* sampled and draws how many draws that took; paths names the template of
\* each sentence of parts.
BioStart(r) ==
    [rng |-> r, parts |-> <<>>, raised |-> "",
     attrs |-> <<>>, values |-> <<>>, draws |-> <<>>, paths |-> <<>>]

\* add_sentence returning for no sampled value at all
no_sentence_never(got) == FALSE

\* add_sentence's early returns: sampled is None, or is an empty list
no_sentence(got) == got = PyNone \/ (got.kind = "list" /\ Len(got.l) = 0)

\* add_sentence(path, value_key, spec, postprocess), c the call's arguments
add_sentence(st, c, p) ==
    IF st.raised # "" THEN st
    ELSE
    LET res == sample_from(p[c.attr], st.rng)
        got == res.val
        st1 == [st EXCEPT !.rng = res.rng,
                          !.attrs = Append(@, c.attr),
                          !.values = Append(@, got),
                          !.draws = Append(@, res.rng.drawn - st.rng.drawn)]
        joined == IF got.kind = "list"
                  THEN PyStr(Join([i \in 1..Len(got.l) |-> Str(got.l[i])], ", "))
                  ELSE got
        sampled_value == IF c.postprocess THEN postprocess(joined) ELSE joined
        sentence == format(templates[c.path], c.key, sampled_value)
    IN  IF got.kind = "raise" THEN [st EXCEPT !.raised = got.s]
        ELSE IF no_sentence(got) THEN st1
        ELSE IF c.path \notin DOMAIN templates THEN st1
        ELSE IF sentence.kind = "raise" THEN [st1 EXCEPT !.raised = sentence.s]
        ELSE [st1 EXCEPT !.parts = Append(@, sentence.s),
                         !.paths = Append(@, c.path)]

RECURSIVE add_sentences(_, _, _)
\* the first k add_sentence calls of generate_biography, in order
add_sentences(k, r, p) ==
    IF k = 0 THEN BioStart(r)
    ELSE add_sentence(add_sentences(k - 1, r, p), add_sentence_calls[k], p)

\* what a generate_biography call that ended in state st returns: " ".join(parts)
\* or the exception raised, with the call's record (again: whether an earlier
\* call had the same int seed, which the caller of the model fills in)
biography(st, seed) ==
    [seed |-> seed,
     raised |-> st.raised,
     bio |-> IF st.raised = "" THEN Join(st.parts, " ") ELSE "",
     parts |-> st.parts, paths |-> st.paths,
     attrs |-> st.attrs, values |-> st.values, draws |-> st.draws,
     again |-> FALSE]

\* generate_biography on PersonaSpec p once its random source r is created:
\* every add_sentence call, then the join
biography_from(p, seed, r) ==
    biography(add_sentences(Len(add_sentence_calls), r, p), seed)

\* generate_biography(seed) on PersonaSpec p
generate_biography(p, seed, entropy) ==
    biography_from(p, seed, NewRandom(seed, entropy))

----------------------------------------------------------------------------
(* The PersonaSpecs generate_biography is called on: any at most           *)
(* MaxPresent attributes set, each to its spec in Catalogue (the examples  *)
(* of persona.py, with an empty option list, a reversed range, a real      *)
(* range and multi-select options among them), the others left None.       *)

Options(strs) == PyList([i \in 1..Len(strs) |-> PyStr(strs[i])])
Range(lo, hi) == PyList(<<lo, hi>>)

Catalogue ==
    [f \in FieldSet |->
        CASE f = "demographic.age" -> Range(PyInt(18), PyInt(35))
          [] f = "demographic.gender" -> Options(<<"male", "female", "non-binary">>)
          [] f = "demographic.income_level" -> Options(<<"low", "medium", "high">>)
          [] f = "demographic.education_level" -> Options(<<"high school", "a bachelors degree">>)
          [] f = "demographic.marital_status" -> Options(<<"single", "married", "divorced">>)
          [] f = "demographic.household_size" -> Range(PyInt(1), PyInt(5))
          [] f = "demographic.children_count" -> Range(PyInt(3), PyInt(0))
          [] f = "demographic.occupation" -> Options(<<"student", "professional">>)
          [] f = "geographic.country" -> Options(<<"Netherlands">>)
          [] f = "geographic.region" -> Options(<<"Northeast", "West", "South", "Randstad">>)
          [] f = "geographic.urbanicity" -> Options(<<"urban", "suburban", "rural">>)
          [] f = "geographic.climate" -> PyList(<<>>)
          [] f = "psychographic.lifestyle" -> Options(<<"health-conscious", "budget-conscious">>)
          [] f = "psychographic.values" ->
                PyList(<<Options(<<"sustainability", "quality">>), PyList(<<>>)>>)
          [] f = "psychographic.personality" -> Options(<<"analytical", "impulsive">>)
          [] f = "psychographic.interests" -> Options(<<"fitness", "gaming", "beauty">>)
          [] f = "behavioral.purchase_frequency" -> Range(PyFloat(50), PyFloat(250))
          [] f = "behavioral.brand_loyalty" -> Options(<<"loyalist", "switcher", "new entrant">>)
          [] f = "behavioral.purchase_channel" -> Options(<<"online", "in-store">>)
          [] f = "behavioral.category_experience" -> Options(<<"low", "moderate", "high">>)
          [] f = "technographic.devices" ->
                PyList(<<Options(<<"smartphone", "laptop">>), Options(<<"tablet">>)>>)
          [] f = "technographic.social_media" -> Options(<<"TikTok", "Instagram">>)
          [] f = "technographic.tech_adoption" -> Options(<<"early adopter", "mainstream">>)]

RECURSIVE FieldSubsets(_)
\* the sets of at most k attributes
FieldSubsets(k) ==
    IF k = 0 THEN {{}}
    ELSE LET smaller == FieldSubsets(k - 1)
         IN  smaller \cup {S \cup {f} : S \in smaller, f \in FieldSet}

\* the PersonaSpec with the attributes of S set
Persona(S) == [f \in FieldSet |-> IF f \in S THEN Catalogue[f] ELSE PyNone]

Personas == {Persona(S) : S \in FieldSubsets(MaxPresent)}

\* a sampled value that renders no sentence: None, or an empty list
no_rendering(v) == v = PyNone \/ v = PyList(<<>>)

\* the attributes a PersonaSpec sets
Present(p) == {f \in FieldSet : p[f] # PyNone}

----------------------------------------------------------------------------
(* predictor.py: IntentPredictor.  A text of the service is a sequence of  *)
(* tokens, each a word or the delimiter "\n\n" the prompts ask for.        *)

Delim == "\n\n"

RECURSIVE Text(_)
\* a text of k + 1 words with a delimiter between them
Text(k) == IF k = 0 THEN <<"w">> ELSE Text(k - 1) \o <<Delim, "w">>

\* what the service may answer: the empty text, or words with up to
\* MaxDelims delimiters
ServiceTexts == {<<>>} \cup {Text(k) : k \in 0..MaxDelims}

RECURSIVE split(_)
\* text.split('\n\n'): the segments between the delimiters, at least one
split(text) ==
    IF text = <<>> THEN << <<>> >>
    ELSE IF Head(text) = Delim THEN << <<>> >> \o split(Tail(text))
    ELSE LET rest == split(Tail(text))
         IN  << <<Head(text)>> \o Head(rest) >> \o Tail(rest)

\* import pdb; pdb.set_trace(): the run halts in the debugger; the operator
\* continues it, or quits and BdbQuit is raised (as it is at once when stdin
\* is closed)
DebuggerCommands == {"continue", "quit"}
set_trace(command) == IF command = "quit" THEN "BdbQuit" ELSE ""

\* perform_questionnaire(biography, product, questionnaire), given the text
\* the service answers with and the debugger command at a breakpoint:
\* the answers returned, or the exception raised
perform_questionnaire(questionnaire, answerText, command) ==
    LET questionnaire_answers == split(answerText)
        halted == \/ Len(questionnaire_answers) = 1
                  \/ Len(questionnaire_answers) # Len(split(questionnaire))
        raised == IF halted THEN set_trace(command) ELSE ""
    IN  [answers |-> questionnaire_answers, halted |-> halted, raised |-> raised]

\* the respondents predict interviews: range(1), whatever sample_size is
interviewed(sample_size) == 1

\* the biography the service returns when asked to elaborate one
Elaborated(bio) == "You are impersonating this person: " \o bio

\* The state of one predict call inside its respondent loop: self.responses,
\* the exception that ended the call ("" while none has), and a record of the
\* interviews made: each one's answers and whether it was appended.
LoopStart(resp) == [responses |-> resp, raised |-> "", interviews |-> <<>>]

\* the rest of one iteration, b the biography generated and q the outcome of
\* perform_questionnaire
interviewed_as(st, b, q, clean_biography) ==
    IF b.raised # "" THEN [st EXCEPT !.raised = b.raised]
    ELSE IF q.raised # ""
    THEN [st EXCEPT !.raised = q.raised,
                    !.interviews = Append(@, [answers |-> q.answers,
                                              appended |-> FALSE])]
    ELSE [st EXCEPT !.responses =
                        Append(@, [biography |-> IF clean_biography
                                                 THEN Elaborated(b.bio) ELSE b.bio,
                                   responses |-> q.answers]),
                    !.interviews = Append(@, [answers |-> q.answers,
                                              appended |-> TRUE])]

\* one iteration of predict's respondent loop; inp holds what the world
\* supplies: entropy, the answer text and the debugger command
interview(st, p, clean_biography, questionnaire, inp) ==
    IF st.raised # "" THEN st
    ELSE interviewed_as(st,
                        generate_biography(p, PyNone, inp.entropy),
                        perform_questionnaire(questionnaire, inp.answerText, inp.command),
                        clean_biography)

RECURSIVE interviews(_, _, _, _, _, _)
\* the first k iterations of predict's respondent loop
interviews(k, resp, p, clean_biography, questionnaire, inps) ==
    IF k = 0 THEN LoopStart(resp)
    ELSE interview(interviews(k - 1, resp, p, clean_biography, questionnaire, inps),
                   p, clean_biography, questionnaire, inps[k])

\* the end of predict, loop the state its respondent loop ended in: unless
\* an exception ended the call, mr is built and written and the run halts in
\* the debugger once more
predicted(loop, concept, questions, sample_size, before, last) ==
    [responses |-> loop.responses,
     saved |-> loop.raised = "",
     mr |-> [concept |-> concept, questions |-> questions,
             responses |-> loop.responses],
     raised |-> IF loop.raised # "" THEN loop.raised ELSE set_trace(last),
     sample_size |-> sample_size,
     questions |-> questions,
     interviews |-> loop.interviews,
     before |-> before]

\* predict(concept_to_predict, persona, sample_size, clean_biography) on an
\* IntentPredictor whose responses are resp, given the questionnaire text the
\* service returns, the debugger commands at the questionnaire breakpoint and
\* at the last one, and each respondent's inputs: self.responses afterwards,
\* the document written (saved), the exception raised, and a record of the call
predict(resp, concept, p, sample_size, clean_biography, questionnaire, command, inps, last) ==
    predicted(IF Len(split(questionnaire)) = 1 /\ set_trace(command) # ""
              THEN [LoopStart(resp) EXCEPT !.raised = set_trace(command)]
              ELSE interviews(interviewed(sample_size), resp, p,
                              clean_biography, questionnaire, inps),
              concept, split(questionnaire), sample_size, Len(resp), last)

----------------------------------------------------------------------------
(* State before any call.                                                  *)

NoBiography ==
    [seed |-> PyNone, raised |-> "not called", bio |-> "", parts |-> <<>>,
     paths |-> <<>>, attrs |-> <<>>, values |-> <<>>, draws |-> <<>>,
     again |-> FALSE]

\* no _sample_from call has returned yet
NotSampled == [kind |-> "unset", n |-> 0, s |-> "", l |-> <<>>]

SamplerInit ==
    /\ spec = PyNone
    /\ rng = NewRandom(PyInt(0), 0)
    /\ sampled = NotSampled

BioInit ==
    /\ bioCall = NoBiography
    /\ seen = [i \in 0..MaxSeed |-> {}]

\* IntentPredictor(): no responses, nothing written, predict not called
NoRun ==
    [responses |-> <<>>, saved |-> FALSE,
     mr |-> [concept |-> "", questions |-> <<>>, responses |-> <<>>],
     raised |-> "", sample_size |-> 0, questions |-> <<>>,
     interviews |-> <<>>, before |-> 0]

PredictInit ==
    /\ responses = <<>>
    /\ stored = <<>>
    /\ run = NoRun
    /\ calls = 0

----------------------------------------------------------------------------
(* The sampler on its own: _sample_from is handed one AttributeSpec and a  *)
(* random source its caller created.                                       *)

\* rng = random.Random(seed)
CreateRandom ==
    \E seed \in Seeds \cup {PyNone}, e \in Entropy :
        /\ rng' = NewRandom(seed, e)
        /\ UNCHANGED <<spec, sampled, bioVars, predictVars>>

\* sampled = _sample_from(spec, rng)
SampleFrom ==
    /\ rng.drawn < MaxDraws
    /\ LET res == sample_from(spec, rng)
       IN  /\ sampled' = res.val
           /\ rng' = res.rng
    /\ UNCHANGED <<spec, bioVars, predictVars>>

SampleInit ==
    /\ spec \in AttributeSpecs
    /\ rng = NewRandom(PyInt(0), 0)
    /\ sampled = NotSampled
    /\ persona = Persona({}) /\ BioInit /\ PredictInit
SampleNext == CreateRandom \/ SampleFrom
SpecSample == SampleInit /\ [][SampleNext]_vars

----------------------------------------------------------------------------
(* generate_biography called again and again on one PersonaSpec.           *)

\* what a caller of generate_biography observes: the string, or the exception
Outcome(b) == [raised |-> b.raised, bio |-> b.bio]

\* persona.generate_biography(seed): the random source is created, the
\* sentences are added
GenerateBiography ==
    \E seed \in Seeds \cup {PyNone} :
    \E r \in {NewRandom(seed, e) : e \in Entropy} :
        /\ bioCall' = [biography_from(persona, seed, r)
                          EXCEPT !.again = seed # PyNone /\ seen[seed.n] # {}]
        /\ seen' = IF seed = PyNone THEN seen
                   ELSE [seen EXCEPT ![seed.n] = @ \cup {Outcome(bioCall')}]
        /\ UNCHANGED <<persona, samplerVars, predictVars>>

BioSpecInit == SamplerInit /\ persona \in Personas /\ BioInit /\ PredictInit
BioNext == GenerateBiography
SpecBio == BioSpecInit /\ [][BioNext]_vars

----------------------------------------------------------------------------
(* Properties of _sample_from (checked under SpecSample).                  *)

\* _sample_from has returned or raised
Sampled == sampled # NotSampled

\* a two-element list of numbers with lo <= hi
IsRange(sp) ==
    /\ sp.kind = "list" /\ Len(sp.l) = 2
    /\ sp.l[1].kind \in {"int", "float"} /\ sp.l[2].kind \in {"int", "float"}
    /\ Hundredths(sp.l[1]) <= Hundredths(sp.l[2])

\* an integer range [lo, hi]: both bounds ints
IsIntRange(sp) == IsRange(sp) /\ sp.l[1].kind = "int" /\ sp.l[2].kind = "int"

\* a real range [lo, hi]: a bound that is no whole number
IsRealRange(sp) ==
    IsRange(sp) /\ \E i \in 1..2 : sp.l[i].kind = "float" /\ sp.l[i].n % 100 # 0

\* a non-empty list that is no pair of numbers
IsDiscreteSet(sp) ==
    /\ sp.kind = "list" /\ Len(sp.l) > 0
    /\ ~(Len(sp.l) = 2 /\ \A i \in 1..2 : sp.l[i].kind \in {"int", "float"})

C5_RealRangeWithinBounds ==
    (Sampled /\ IsRealRange(spec)) =>
        /\ sampled.kind = "float"
        /\ sampled.n % 10 = 0
        /\ Hundredths(spec.l[1]) <= sampled.n
        /\ sampled.n <= Hundredths(spec.l[2])

\* C6: for a non-empty discrete set _sample_from returns one of its members;
\* a two-element list with a non-numeric entry is sampled as a discrete set
\* and yields one of its two entries.
C6_DiscreteSetMember ==
    /\ (Sampled /\ IsDiscreteSet(spec)) =>
            \E i \in 1..Len(spec.l) : sampled = spec.l[i]
    /\ (Sampled /\ spec.kind = "list" /\ Len(spec.l) = 2
               /\ \E i \in 1..2 : spec.l[i].kind \notin {"int", "float"}) =>
            sampled \in {spec.l[1], spec.l[2]}

\* a pair of one number and one label was sampled and gave the label
C6_Witness ==
    /\ Sampled
    /\ spec.kind = "list" /\ Len(spec.l) = 2
    /\ spec.l[1].kind = "int" /\ spec.l[2].kind = "str"
    /\ sampled = spec.l[2]

\* C7: _sample_from never raises, whatever the AttributeSpec (None, a
\* discrete set, the empty set, any pair of numbers), and the empty set
\* yields None.
C7_SampleNeverRaises ==
    /\ sampled.kind # "raise"
    /\ (Sampled /\ spec = PyList(<<>>)) => sampled = PyNone

----------------------------------------------------------------------------
(* Properties of generate_biography (checked under SpecBio).               *)

\* the last generate_biography call returned a string
Returned == bioCall.raised = ""

\* the attributes that produced a sentence in the last call
Produced == {bioCall.paths[i] : i \in 1..Len(bioCall.paths)}

\* the sentence attribute f produced in the last call
SentenceOf(f) == bioCall.parts[CHOOSE i \in 1..Len(bioCall.paths) : bioCall.paths[i] = f]

RECURSIVE InDeclarationOrder(_)
\* the sentences of the attributes Fields[k..] that produced one, in the
\* order the categories and their attributes are declared
InDeclarationOrder(k) ==
    IF k > Len(Fields) THEN <<>>
    ELSE (IF Fields[k] \in Produced THEN <<SentenceOf(Fields[k])>> ELSE <<>>)
             \o InDeclarationOrder(k + 1)

\* C1: the biography is the space-joined sequence of the sentences produced,
\* each attribute's once, in category order and within a category in
\* attribute-declaration order, whichever attributes are absent.
C1_SentencesInDeclarationOrder ==
    Returned =>
        /\ Cardinality(Produced) = Len(bioCall.parts)
        /\ bioCall.bio = Join(InDeclarationOrder(1), " ")

\* a biography of two sentences from the Psychographic and the Behavioral
\* category, every other attribute absent
C1_Witness ==
    /\ Returned
    /\ bioCall.paths = <<"psychographic.interests", "behavioral.brand_loyalty">>
    /\ Cardinality(Present(persona)) = 2

\* C2: two generate_biography calls on the same PersonaSpec with the same
\* int seed return the same string (or raise the same exception).
C2_SameSeedSameBiography ==
    \A i \in 0..MaxSeed : Cardinality(seen[i]) <= 1

\* a seed was used a second time on a PersonaSpec whose biography depends on
\* the draws: the other seed gave another biography
C2_Witness ==
    /\ bioCall.again /\ bioCall.seed = PyInt(0)
    /\ seen[0] # seen[1]
    /\ seen[1] # {}
    /\ \A o \in seen[0] \cup seen[1] : o.raised = ""

\* the samples of the last call that were neither None nor an empty list
Rendered == {i \in 1..Len(bioCall.values) : ~no_rendering(bioCall.values[i])}

\* the absent attributes of the PersonaSpec add no sentence and take no draw,
\* and an all-absent PersonaSpec gives ""
AbsentAddsNothing ==
    /\ \A i \in 1..Len(bioCall.attrs) :
            persona[bioCall.attrs[i]] = PyNone =>
                /\ bioCall.attrs[i] \notin Produced
                /\ bioCall.draws[i] = 0
    /\ Present(persona) = {} => bioCall.bio = ""

\* C3 as claimed: absent attributes add no sentence and take no draw, the
\* number of sentences is the number of attributes that sampled a value, and
\* an all-absent PersonaSpec gives "".
C3_SentencePerSampledValue ==
    Returned =>
        /\ AbsentAddsNothing
        /\ Len(bioCall.parts) =
              Cardinality({i \in 1..Len(bioCall.values) : bioCall.values[i] # PyNone})

\* C3 as amended: ... the number of sentences is the number of attributes
\* whose sampled value is neither None nor an empty list ...
C3_SentencePerRenderedValue ==
    Returned =>
        /\ AbsentAddsNothing
        /\ Len(bioCall.parts) = Cardinality(Rendered)

\* a PersonaSpec with two attributes set, one of which sampled an empty
\* multi-select: one sentence, and 21 absent attributes
C3_Witness ==
    /\ Returned
    /\ Cardinality(Present(persona)) = 2
    /\ Len(bioCall.parts) = 1
    /\ \E i \in 1..Len(bioCall.values) : bioCall.values[i] = PyList(<<>>)

----------------------------------------------------------------------------
(* predict called again and again on one IntentPredictor.                  *)

Concept == "A drink that functions as a meal"

\* what the world supplies to one iteration of the respondent loop
RespondentInputs ==
    [entropy : Entropy, answerText : ServiceTexts, command : DebuggerCommands]

\* the PersonaSpecs predict is called with: nothing set, two attributes set,
\* one attribute set to a reversed range
PredictPersonas ==
    { Persona({}),
      Persona({"demographic.gender", "geographic.country"}),
      Persona({"demographic.children_count"}) }

\* ip.predict(concept_to_predict, persona, sample_size, clean_biography)
Predict ==
    /\ calls < MaxCalls
    /\ \E sample_size \in 1..MaxSample, clean_biography \in BOOLEAN,
          questionnaire \in ServiceTexts, command \in DebuggerCommands,
          last \in DebuggerCommands :
       \E inps \in [1..interviewed(sample_size) -> RespondentInputs] :
        /\ run' = predict(responses, Concept, persona, sample_size,
                          clean_biography, questionnaire, command, inps, last)
        /\ responses' = run'.responses
        /\ stored' = IF run'.saved THEN <<run'.mr>> ELSE stored
        /\ calls' = calls + 1
        /\ UNCHANGED <<persona, samplerVars, bioCall, seen>>

PredictSpecInit ==
    SamplerInit /\ persona \in PredictPersonas /\ BioInit /\ PredictInit
PredictNext == Predict
SpecPredict == PredictSpecInit /\ [][PredictNext]_vars

----------------------------------------------------------------------------
(* Properties of predict (checked under SpecPredict).                      *)

\* C8: when the questionnaire text splits into exactly one segment, predict
\* ends with an error, interviews nobody and writes no result.
C8_SingleSegmentSurfaced ==
    (calls > 0 /\ Len(run.questions) = 1) =>
        /\ run.raised # ""
        /\ run.interviews = <<>>
        /\ ~run.saved

\* C9: when the number of answer segments differs from the number of
\* question segments, the call ends with an error and the answers are not
\* recorded as an Interview Record.
C9_AnswerCountMismatchSurfaced ==
    calls > 0 =>
        \A i \in 1..Len(run.interviews) :
            Len(run.interviews[i].answers) # Len(run.questions) =>
                /\ run.raised # ""
                /\ ~run.interviews[i].appended

\* C10: the result a predict call with sample size n writes holds exactly n
\* Interview Records, those of the respondents of that call, in order.
C10_OneRecordPerRespondent ==
    (calls > 0 /\ run.saved) =>
        /\ Len(stored[1].responses) = run.sample_size
        /\ Len(run.interviews) = run.sample_size
        /\ \A i \in 1..Len(stored[1].responses) :
                stored[1].responses[i].responses = run.interviews[i].answers

====
